---- MODULE Spec2Model ----
(***************************************************************************)
(* ScalerChoice of autoPyTorch (tabular_preprocessing/scaling/__init__.py): *)
(* the registry of scalers (_scalers, _addons), the search-space updates    *)
(* of one ScalerChoice object, its cache (dataset_properties,               *)
(* configuration_space) and get_hyperparameter_search_space.                *)
(***************************************************************************)
EXTENDS Naturals, Sequences, FiniteSets, TLC

VARIABLES
    _scalers,             \* module global: built-in components, in discovery order
    _addons,              \* module global: third-party components, in insertion order
    _cs_updates,          \* self._cs_updates: the search-space updates of the choice
    dataset_properties,   \* self.dataset_properties
    configuration_space,  \* self.configuration_space
    lastCall,             \* the most recent call on the object since the registry and
                          \* the updates last changed: arguments and outcome
    okProps,              \* history: initial properties overlaid by the arguments of the successful calls
    okSpace               \* history: the space returned by the latest successful call

vars == <<_scalers, _addons, _cs_updates, dataset_properties, configuration_space,
          lastCall, okProps, okSpace>>

(***************************************************************************)
(* Bounds of the model.                                                     *)
(***************************************************************************)
MaxAddons == 1      \* third-party components registered at most

(***************************************************************************)
(* Values.                                                                  *)
(***************************************************************************)
None == "None"
NoScaler == "NoScaler"

\* the preference order of the default
defaults == <<"StandardScaler", "Normalizer", "MinMaxScaler", "PowerTransformer",
              "QuantileTransformer", "RobustScaler", "NoScaler">>

\* a component class: its name and what its applicability predicate needs
Always == "always"
NeedsNumerical == "numerical"
Component(n, a) == [name |-> n, applic |-> a]

\* the order in which find_components discovers the built-in modules
BuiltinOrder == <<"MinMaxScaler", "NoScaler", "StandardScaler">>
BuiltinNames == {BuiltinOrder[i] : i \in DOMAIN BuiltinOrder}

\* the sets of built-in modules the scaling directory may hold
Registries == SUBSET BuiltinNames
EngineRegistries == {{"NoScaler", "StandardScaler"}, BuiltinNames}

find_components(present) ==
    LET all == [i \in DOMAIN BuiltinOrder |-> Component(BuiltinOrder[i], Always)]
    IN SelectSeq(all, LAMBDA d : d.name \in present)

\* third-party scaler classes a caller may register
AddonPool == {Component("CustomScaler", Always),
              Component("CustomScaler", NeedsNumerical),
              Component("StandardScaler", NeedsNumerical)}
EngineAddonPool == {Component("CustomScaler", NeedsNumerical),
                    Component("StandardScaler", NeedsNumerical)}

\* a property value: a list of column ids, or something that is no list
ListVal(cols) == [isList |-> TRUE, cols |-> cols]
NonList == [isList |-> FALSE, cols |-> <<>>]

EmptyProps == [k \in {} |-> NonList]
Props1(k, v) == [x \in {k} |-> v]
Props2(v, w) == [k \in {"numerical_columns", "categorical_columns"} |->
                    IF k = "numerical_columns" THEN v ELSE w]
PropsPool ==
    {EmptyProps,
     Props1("numerical_columns", ListVal(<<>>)),
     Props1("numerical_columns", ListVal(<<"c1">>)),
     Props1("numerical_columns", NonList),
     Props1("categorical_columns", ListVal(<<"c2">>)),
     Props2(ListVal(<<>>), ListVal(<<"c2">>)),
     Props2(ListVal(<<"c1">>), ListVal(<<>>))}
EnginePropsPool ==
    {Props1("numerical_columns", ListVal(<<>>)),
     Props1("numerical_columns", ListVal(<<"c1">>)),
     Props1("categorical_columns", ListVal(<<>>))}

\* the dataset_properties argument: None, or a dict
NoDict == [given |-> FALSE, props |-> EmptyProps]
Dict(p) == [given |-> TRUE, props |-> p]
DatasetPropertiesArgs == {NoDict} \cup {Dict(p) : p \in PropsPool}
EngineDatasetPropertiesArgs == {NoDict} \cup {Dict(p) : p \in EnginePropsPool}

\* include / exclude: None, or a list of names
NoList == [given |-> FALSE, names |-> {}]
NameList(S) == [given |-> TRUE, names |-> S]
IncludeExcludeArgs ==
    {<<NoList, NoList>>,
     <<NameList({"MinMaxScaler", "NoScaler"}), NoList>>,
     <<NameList({"StandardScaler"}), NoList>>,
     <<NoList, NameList({"StandardScaler"})>>,
     <<NoList, NameList({"NoScaler"})>>,
     <<NoList, NameList({"NoScaler", "StandardScaler"})>>}
EngineIncludeExcludeArgs == {<<NoList, NoList>>, <<NoList, NameList({"StandardScaler"})>>}
DefaultArgs == {None, "StandardScaler", "NoScaler"}
EngineDefaultArgs == {None, "NoScaler"}

\* the '__choice__' update: absent, or value_range and default_value
NoChoiceUpdate == [given |-> FALSE, value_range |-> <<>>, default_value |-> None]
ChoiceUpdate(r, d) == [given |-> TRUE, value_range |-> r, default_value |-> d]
ChoiceUpdates ==
    {ChoiceUpdate(<<>>, "NoScaler"),
     ChoiceUpdate(<<"NoScaler">>, "NoScaler"),
     ChoiceUpdate(<<"StandardScaler">>, "StandardScaler"),
     ChoiceUpdate(<<"StandardScaler", "NoScaler">>, "NoScaler"),
     ChoiceUpdate(<<"NoScaler", "StandardScaler">>, "MinMaxScaler")}
EngineChoiceUpdates ==
    {ChoiceUpdate(<<"NoScaler">>, "NoScaler"),
     ChoiceUpdate(<<"StandardScaler", "NoScaler">>, "NoScaler")}
NestedNames == {"StandardScaler"}

\* a configuration space: the '__choice__' parameter and the grafted sub-spaces
NoSpace == [choices |-> <<>>, default |-> None, children |-> <<>>]

Range(s) == {s[i] : i \in DOMAIN s}
Keys(components) == [i \in DOMAIN components |-> components[i].name]

\* {**a, **b}
Overlay(a, b) ==
    [k \in (DOMAIN a) \cup (DOMAIN b) |-> IF k \in DOMAIN b THEN b[k] ELSE a[k]]

(***************************************************************************)
(* The registry.                                                            *)
(***************************************************************************)
\* ThirdPartyComponents.add_component: insert or replace by name, last write wins
add_component(addons, scaler) ==
    IF \E i \in DOMAIN addons : addons[i].name = scaler.name
    THEN [i \in DOMAIN addons |-> IF addons[i].name = scaler.name THEN scaler ELSE addons[i]]
    ELSE Append(addons, scaler)

\* ScalerChoice.get_components: OrderedDict of _scalers updated by _addons.components
get_components(scalers, addons) ==
    LET updated == [i \in DOMAIN scalers |->
                      IF \E j \in DOMAIN addons : addons[j].name = scalers[i].name
                      THEN addons[CHOOSE j \in DOMAIN addons : addons[j].name = scalers[i].name]
                      ELSE scalers[i]]
        added == SelectSeq(addons, LAMBDA d : \A i \in DOMAIN scalers : scalers[i].name # d.name)
    IN updated \o added

\* the applicability predicate of a component class
IsApplicable(d, props) ==
    \/ d.applic = Always
    \/ /\ "numerical_columns" \in DOMAIN props
       /\ props["numerical_columns"].isList
       /\ Len(props["numerical_columns"].cols) > 0

\* autoPyTorchChoice.get_available_components: the applicability filter
get_available_components(components, props, include, exclude) ==
    LET restrict == include.given /\ include.names # {}
        usable == {components[i].name : i \in {j \in DOMAIN components :
                                                  IsApplicable(components[j], props)}}
    IN IF restrict /\ ~(include.names \subseteq usable)
       THEN [status |-> "InvalidInclude", components |-> <<>>]
       ELSE [status |-> "ok",
             components |-> SelectSeq(components, LAMBDA d :
                 /\ restrict => d.name \in include.names
                 /\ ~(exclude.given /\ d.name \in exclude.names)
                 /\ IsApplicable(d, props))]

(***************************************************************************)
(* get_hyperparameter_search_space, stage by stage.                         *)
(***************************************************************************)
\* mutant: the cached properties win over the argument
MergedPropertiesCachedWins(selfProps, arg) ==
    Overlay(IF arg.given THEN arg.props ELSE EmptyProps, selfProps)

\* dataset_properties = {**self.dataset_properties, **dataset_properties}
MergedProperties(selfProps, arg) ==
    Overlay(selfProps, IF arg.given THEN arg.props ELSE EmptyProps)

\* mutant: the scan without its break, the last match wins
RECURSIVE ScanDefaultsNoBreak(_, _, _, _)
ScanDefaultsNoBreak(i, available, include, exclude) ==
    IF i > Len(defaults) THEN None
    ELSE LET rest == ScanDefaultsNoBreak(i + 1, available, include, exclude)
         IN IF rest # None THEN rest
            ELSE IF /\ defaults[i] \in available
                    /\ ~(include.given /\ defaults[i] \notin include.names)
                    /\ ~(exclude.given /\ defaults[i] \in exclude.names)
                 THEN defaults[i]
                 ELSE None

\* the scan of the preference order, from position i on
RECURSIVE ScanDefaults(_, _, _, _)
ScanDefaults(i, available, include, exclude) ==
    IF i > Len(defaults) THEN None
    ELSE IF /\ defaults[i] \in available
            /\ ~(include.given /\ defaults[i] \notin include.names)
            /\ ~(exclude.given /\ defaults[i] \in exclude.names)
         THEN defaults[i]
         ELSE ScanDefaults(i + 1, available, include, exclude)

\* mutant: the scan runs whether or not a default was passed
ResolveDefaultAlwaysScans(default, available, include, exclude) ==
    ScanDefaults(1, available, include, exclude)

\* if default is None: ... (the explicit default is kept as it is)
ResolveDefault(default, available, include, exclude) ==
    IF default = None THEN ScanDefaults(1, available, include, exclude) ELSE default

\* numerical_columns, [] when the property is no list
NumericalColumns(props) ==
    IF props["numerical_columns"].isList THEN props["numerical_columns"].cols ELSE <<>>

\* mutant: the subset check is left out
ValueRangeUnchecked(value_range, available) == TRUE

\* set(choice_hyperparameter.value_range).issubset(available_scalers)
ValueRangeAllowed(value_range, available) == Range(value_range) \subseteq available

\* the checks of the '__choice__' update on a dataset without numerical columns
CategoricalOnlyCheck(value_range) ==
    IF Len(value_range) # 1 THEN "AssertionError"
    ELSE IF NoScaler \notin Range(value_range) THEN "IncompatibleDatasetOverride"
    ELSE "ok"

\* CSH.CategoricalHyperparameter(name, choices, default_value): an illegal default is
\* refused, a default of None is the first choice
CategoricalHyperparameter(choices, default_value) ==
    IF default_value = None
    THEN IF Len(choices) = 0 THEN [ok |-> FALSE, choices |-> choices, default |-> None]
         ELSE [ok |-> TRUE, choices |-> choices, default |-> choices[1]]
    ELSE [ok |-> default_value \in Range(choices), choices |-> choices, default |-> default_value]

\* mutant: the branch for a dataset without numerical columns is left out
ChoiceWithoutUpdateAllScalers(numerical_columns, available_scalers, default) ==
    CategoricalHyperparameter(Keys(available_scalers), default)

\* the '__choice__' parameter when there is no update for it
ChoiceWithoutUpdate(numerical_columns, available_scalers, default) ==
    IF Len(numerical_columns) = 0
    THEN CategoricalHyperparameter(<<NoScaler>>, NoScaler)
    ELSE CategoricalHyperparameter(Keys(available_scalers), default)

\* the sub-space a component class builds from the properties and its own updates
SubSpace(d, props, nested) ==
    [name |-> d.name, applic |-> d.applic, props |-> props, updates |-> nested]

\* _get_search_space_updates(prefix=name)
NestedUpdates(updates, name) == name \in updates.nested

\* mutant: a name that is no key of available_scalers is skipped
GraftedSpacesSkipMissing(choices, available_scalers, props, updates) ==
    LET known == SelectSeq(choices, LAMBDA n : n \in Range(Keys(available_scalers)))
    IN [ok |-> TRUE,
        children |-> [i \in DOMAIN known |->
            LET d == available_scalers[CHOOSE j \in DOMAIN available_scalers :
                                           available_scalers[j].name = known[i]]
            IN [name |-> d.name, applic |-> d.applic, props |-> props,
                updates |-> known[i] \in updates.nested]]]

\* for name in preprocessor.choices: graft available_scalers[name]'s sub-space;
\* a name that is no key of available_scalers is a KeyError
GraftedSpaces(choices, available_scalers, props, updates) ==
    IF \E i \in DOMAIN choices : choices[i] \notin Range(Keys(available_scalers))
    THEN [ok |-> FALSE, children |-> <<>>]
    ELSE [ok |-> TRUE,
          children |-> [i \in DOMAIN choices |->
              LET d == available_scalers[CHOOSE j \in DOMAIN available_scalers :
                                             available_scalers[j].name = choices[i]]
              IN SubSpace(d, props, NestedUpdates(updates, choices[i]))]]

\* mutant: the argument is stored, not the merged properties
StoredPropertiesArgument(merged, arg) == IF arg.given THEN arg.props ELSE EmptyProps

\* what the call stores in self.dataset_properties
StoredProperties(merged, arg) == merged

Failure(kind, stages, props, available) ==
    [status |-> kind, cs |-> NoSpace, stages |-> stages, resolved |-> props,
     available |-> available]

\* the stages after the filter, on a non-empty available set
ComposeSpace(available_scalers, props, updates, default, include, exclude) ==
    LET available == Range(Keys(available_scalers))
        names == Keys(available_scalers)
        d == ResolveDefault(default, available, include, exclude)
    IN IF "numerical_columns" \notin DOMAIN props
       THEN Failure("KeyError", <<"filter", "default">>, props, names)
       ELSE
       LET numerical_columns == NumericalColumns(props)
           choice == updates.choice
           rangeError ==
               IF ~choice.given THEN "ok"
               ELSE IF ~ValueRangeAllowed(choice.value_range, available)
                    THEN "InvalidOverrideDomain"
               ELSE IF Len(numerical_columns) = 0
                    THEN CategoricalOnlyCheck(choice.value_range)
               ELSE "ok"
           preprocessor ==
               IF choice.given
               THEN CategoricalHyperparameter(choice.value_range, choice.default_value)
               ELSE ChoiceWithoutUpdate(numerical_columns, available_scalers, d)
           grafted == GraftedSpaces(preprocessor.choices, available_scalers, props, updates)
           st == <<"filter", "default", "override">>
       IN IF rangeError # "ok" THEN Failure(rangeError, st, props, names)
          ELSE IF /\ ~choice.given
                  /\ Len(numerical_columns) = 0
                  /\ include.given /\ NoScaler \notin include.names
               THEN Failure("IncompatibleDataset", st, props, names)
          ELSE IF ~preprocessor.ok
               THEN Failure(IF choice.given THEN "InvalidOverrideDefault" ELSE "IllegalDefault",
                            st, props, names)
          ELSE IF ~grafted.ok
               THEN Failure("KeyError", Append(st, "graft"), props, names)
          ELSE [status |-> "ok",
                cs |-> [choices |-> preprocessor.choices,
                        default |-> preprocessor.default,
                        children |-> grafted.children],
                stages |-> Append(st, "graft"),
                resolved |-> props,
                available |-> names]

get_hyperparameter_search_space(selfProps, components, updates, arg, default, include, exclude) ==
    LET props == MergedProperties(selfProps, arg)
        filtered == get_available_components(components, props, include, exclude)
    IN IF filtered.status # "ok"
       THEN Failure(filtered.status, <<"filter">>, props, <<>>)
       ELSE IF Len(filtered.components) = 0
       THEN Failure("NoApplicableVariant", <<"filter">>, props, <<>>)
       ELSE ComposeSpace(filtered.components, props, updates, default, include, exclude)

\* ScalerChoice._check_dataset_properties
_check_dataset_properties(props) ==
    IF "numerical_columns" \in DOMAIN props /\ "categorical_columns" \in DOMAIN props
    THEN "ok" ELSE "AssertionError"

(***************************************************************************)
(* The state machine.                                                       *)
(***************************************************************************)
NoCall ==
    [op |-> "none", arg |-> NoDict, default |-> None, include |-> NoList, exclude |-> NoList,
     status |-> "none", cs |-> NoSpace, stages |-> <<>>, resolved |-> EmptyProps,
     available |-> <<>>, updates |-> NoChoiceUpdate, repeat |-> FALSE,
     prevStatus |-> "none", prevSpace |-> NoSpace]

\* the state after import of the module and construction of the choice object
Constructed(registries, properties) ==
    /\ _scalers \in {find_components(S) : S \in registries}
    /\ _addons = <<>>
    /\ _cs_updates = [choice |-> NoChoiceUpdate, nested |-> {}]
    /\ dataset_properties \in properties
    /\ configuration_space = NoSpace
    /\ lastCall = NoCall
    /\ okProps = dataset_properties
    /\ okSpace = NoSpace

\* add_scaler(scaler)
AddScaler(scaler) ==
    /\ \/ Len(_addons) < MaxAddons
       \/ \E i \in DOMAIN _addons : _addons[i].name = scaler.name
    /\ _addons' = add_component(_addons, scaler)
    /\ lastCall' = NoCall
    /\ UNCHANGED <<_scalers, _cs_updates, dataset_properties, configuration_space,
                   okProps, okSpace>>

\* _apply_search_space_update for the '__choice__' hyperparameter
ApplyChoiceUpdate(u) ==
    /\ _cs_updates' = [_cs_updates EXCEPT !.choice = u]
    /\ lastCall' = NoCall
    /\ UNCHANGED <<_scalers, _addons, dataset_properties, configuration_space,
                   okProps, okSpace>>

\* _apply_search_space_update for a hyperparameter of the component n
ApplyNestedUpdate(n) ==
    /\ _cs_updates' = [_cs_updates EXCEPT !.nested = @ \cup {n}]
    /\ lastCall' = NoCall
    /\ UNCHANGED <<_scalers, _addons, dataset_properties, configuration_space,
                   okProps, okSpace>>

\* self.get_hyperparameter_search_space(dataset_properties, default, include, exclude)
GetHyperparameterSearchSpace(arg, default, include, exclude) ==
    LET r == get_hyperparameter_search_space(dataset_properties,
                                             get_components(_scalers, _addons),
                                             _cs_updates, arg, default, include, exclude)
        again == /\ lastCall.op = "compose"
                 /\ lastCall.arg = arg /\ lastCall.default = default
                 /\ lastCall.include = include /\ lastCall.exclude = exclude
    IN /\ lastCall' = [op |-> "compose", arg |-> arg, default |-> default,
                       include |-> include, exclude |-> exclude,
                       status |-> r.status, cs |-> r.cs, stages |-> r.stages,
                       resolved |-> r.resolved, available |-> r.available,
                       updates |-> _cs_updates.choice,
                       repeat |-> again,
                       prevStatus |-> IF again THEN lastCall.status ELSE "none",
                       prevSpace |-> IF again THEN lastCall.cs ELSE NoSpace]
       /\ IF r.status = "ok"
          THEN /\ configuration_space' = r.cs
               /\ dataset_properties' = StoredProperties(r.resolved, arg)
               /\ okProps' = Overlay(okProps, IF arg.given THEN arg.props ELSE EmptyProps)
               /\ okSpace' = r.cs
          ELSE UNCHANGED <<configuration_space, dataset_properties, okProps, okSpace>>
       /\ UNCHANGED <<_scalers, _addons, _cs_updates>>

\* self._check_dataset_properties(dataset_properties)
CheckDatasetProperties(p) ==
    /\ lastCall' = [NoCall EXCEPT !.op = "check", !.arg = Dict(p),
                                  !.status = _check_dataset_properties(p), !.resolved = p]
    /\ UNCHANGED <<_scalers, _addons, _cs_updates, dataset_properties, configuration_space,
                   okProps, okSpace>>

(***************************************************************************)
(* Spec: one choice object through any sequence of registrations, updates   *)
(* and calls.                                                               *)
(***************************************************************************)
Init == Constructed(EngineRegistries, {EmptyProps, Props2(ListVal(<<"c1">>), ListVal(<<"c2">>))})

Next ==
    \/ \E scaler \in EngineAddonPool : AddScaler(scaler)
    \/ \E u \in EngineChoiceUpdates : ApplyChoiceUpdate(u)
    \/ \E n \in NestedNames : ApplyNestedUpdate(n)
    \/ \E arg \in EngineDatasetPropertiesArgs, default \in EngineDefaultArgs,
          ie \in EngineIncludeExcludeArgs :
          GetHyperparameterSearchSpace(arg, default, ie[1], ie[2])
    \/ \E p \in EnginePropsPool : CheckDatasetProperties(p)

Spec == Init /\ [][Next]_vars

(***************************************************************************)
(* SpecFirstCall: the set-up of the registry and the updates, then one call *)
(* on the object, whose properties so far are any the pool holds.           *)
(***************************************************************************)
InitFirstCall == Constructed(Registries, PropsPool)

NotCalledYet == lastCall.op = "none"

NextFirstCall ==
    \/ \E scaler \in AddonPool : NotCalledYet /\ AddScaler(scaler)
    \/ \E u \in ChoiceUpdates : NotCalledYet /\ ApplyChoiceUpdate(u)
    \/ \E n \in NestedNames : NotCalledYet /\ ApplyNestedUpdate(n)
    \/ \E arg \in DatasetPropertiesArgs, default \in DefaultArgs,
          ie \in IncludeExcludeArgs :
          NotCalledYet /\ GetHyperparameterSearchSpace(arg, default, ie[1], ie[2])
    \/ \E p \in PropsPool : NotCalledYet /\ CheckDatasetProperties(p)

SpecFirstCall == InitFirstCall /\ [][NextFirstCall]_vars

(***************************************************************************)
(* The claims. They read the most recent call from lastCall.                *)
(***************************************************************************)
Composed == lastCall.op = "compose"
Succeeded == Composed /\ lastCall.status = "ok"
AvailableNames == Range(lastCall.available)
Choices == Range(lastCall.cs.choices)
HasNumericalKey == "numerical_columns" \in DOMAIN lastCall.resolved
NumericalEmpty == HasNumericalKey /\ Len(NumericalColumns(lastCall.resolved)) = 0
NumericalPresent == HasNumericalKey /\ Len(NumericalColumns(lastCall.resolved)) > 0
FilterPassed == Composed /\ Len(lastCall.available) > 0

\* C1: after a successful call every name of the '__choice__' domain is a key of the
\* available set that get_available_components returned to the call, and the
\* default of '__choice__' is a member of the domain.
C1_DomainWithinAvailable ==
    Succeeded =>
        /\ Choices \subseteq AvailableNames
        /\ lastCall.cs.default \in Choices

C1_Witness ==
    /\ Succeeded
    /\ lastCall.updates.given
    /\ Len(lastCall.cs.choices) = 2
    /\ Cardinality(AvailableNames) = 3

\* C2: with an empty numerical_columns and no '__choice__' update, the domain of the
\* returned space is exactly <<NoScaler>> and its default is NoScaler.
C2_CategoricalOnlyIsNoScaler ==
    (Succeeded /\ NumericalEmpty /\ ~lastCall.updates.given) =>
        /\ lastCall.cs.choices = <<NoScaler>>
        /\ lastCall.cs.default = NoScaler

C2_Witness ==
    /\ Succeeded /\ NumericalEmpty /\ ~lastCall.updates.given
    /\ Cardinality(AvailableNames) >= 2
    /\ lastCall.default = "StandardScaler"

\* the call made by this step
ComposeStep == lastCall'.op = "compose" /\ lastCall' # lastCall

\* the filter of the call c returned a set and the value_range of the '__choice__'
\* update is no subset of it
RangeOutsideAvailable(c) ==
    /\ c.op = "compose"
    /\ c.updates.given
    /\ c.status # "InvalidInclude"
    /\ ~(Range(c.updates.value_range) \subseteq Range(c.available))

\* C3, as claimed: a '__choice__' update whose value_range is no subset of the
\* available names makes the call fail with InvalidOverrideDomain, return no space
\* and leave the registry and the cache as they were.
C3_AsClaimed ==
    [][(ComposeStep /\ RangeOutsideAvailable(lastCall')) =>
          /\ lastCall'.status = "InvalidOverrideDomain"
          /\ lastCall'.cs = NoSpace
          /\ UNCHANGED <<_scalers, _addons, configuration_space, dataset_properties>>]_vars

\* C3, amended: such a call fails, returns no space and leaves the registry and the
\* cache as they were; its error is InvalidOverrideDomain when the available set is
\* non-empty and the properties hold numerical_columns (an empty available set or a
\* missing key fails first, with its own error).
C3_RangeOutsideAvailableFails ==
    [][(ComposeStep /\ RangeOutsideAvailable(lastCall')) =>
          /\ lastCall'.status # "ok"
          /\ lastCall'.cs = NoSpace
          /\ UNCHANGED <<_scalers, _addons, configuration_space, dataset_properties>>
          /\ (Len(lastCall'.available) > 0 /\ "numerical_columns" \in DOMAIN lastCall'.resolved)
                => lastCall'.status = "InvalidOverrideDomain"
          /\ Len(lastCall'.available) = 0 => lastCall'.status = "NoApplicableVariant"]_vars

C3_Witness ==
    /\ RangeOutsideAvailable(lastCall)
    /\ lastCall.status = "InvalidOverrideDomain"
    /\ Len(lastCall.available) >= 2

\* C4, as claimed: with an empty numerical_columns and a '__choice__' update whose
\* value_range names available scalers, every value_range other than <<NoScaler>>
\* (another single name, or two or more names) fails with
\* IncompatibleDatasetOverride.
C4_AsClaimed ==
    (FilterPassed /\ NumericalEmpty /\ lastCall.updates.given
        /\ Len(lastCall.updates.value_range) >= 1
        /\ Range(lastCall.updates.value_range) \subseteq AvailableNames
        /\ lastCall.updates.value_range # <<NoScaler>>)
    => lastCall.status = "IncompatibleDatasetOverride"

\* C5, as claimed: an explicit default that is in the available set is the default
\* of '__choice__' in the returned space, whatever the properties and the updates.
C5_AsClaimed ==
    (Succeeded /\ lastCall.default # None /\ lastCall.default \in AvailableNames)
    => lastCall.cs.default = lastCall.default

\* C5, amended: an explicit default that is in the available set is the default of
\* '__choice__' when numerical_columns is non-empty and there is no '__choice__'
\* update; with an update the default is the update's default_value, and with an
\* empty numerical_columns and no update it is NoScaler.
C5_ExplicitDefault ==
    (Succeeded /\ lastCall.default # None /\ lastCall.default \in AvailableNames)
    => lastCall.cs.default =
          IF lastCall.updates.given THEN lastCall.updates.default_value
          ELSE IF NumericalPresent THEN lastCall.default
          ELSE NoScaler

C5_Witness ==
    /\ Succeeded /\ NumericalPresent /\ ~lastCall.updates.given
    /\ lastCall.default = "NoScaler"
    /\ "StandardScaler" \in AvailableNames
    /\ lastCall.cs.default = "NoScaler"

\* the positions of the preference order that are available, not excluded and,
\* when include is set, included
Survivors ==
    {i \in DOMAIN defaults :
        /\ defaults[i] \in AvailableNames
        /\ ~(lastCall.exclude.given /\ defaults[i] \in lastCall.exclude.names)
        /\ lastCall.include.given => defaults[i] \in lastCall.include.names}

\* C6: with no explicit default, a non-empty numerical_columns and no '__choice__'
\* update, the default of '__choice__' is the first name of the preference order
\* that is available, not excluded and, when include is set, included.
C6_FirstOfPreferenceOrder ==
    (Succeeded /\ lastCall.default = None /\ NumericalPresent /\ ~lastCall.updates.given
        /\ Survivors # {})
    => /\ lastCall.cs.default \in Range(defaults)
       /\ \E i \in Survivors : /\ defaults[i] = lastCall.cs.default
                                /\ \A j \in Survivors : i <= j

C6_Witness ==
    /\ Succeeded /\ lastCall.default = None /\ NumericalPresent /\ ~lastCall.updates.given
    /\ Cardinality(Survivors) = 2
    /\ "StandardScaler" \in {get_components(_scalers, _addons)[i].name :
                                i \in DOMAIN get_components(_scalers, _addons)}
    /\ lastCall.cs.default = "MinMaxScaler"

\* C7, as claimed: with no explicit default and no name of the preference order
\* surviving the scan, the call fails with NoDefaultFound and returns no space
\* (stated for the calls with numerical columns and without a '__choice__' update,
\* where the scanned default is the one the space is built with).
C7_AsClaimed ==
    (FilterPassed /\ NumericalPresent /\ ~lastCall.updates.given
        /\ lastCall.default = None /\ Survivors = {})
    => /\ lastCall.status = "NoDefaultFound"
       /\ lastCall.cs = NoSpace

\* C8, as claimed: when the effective properties lack numerical_columns or
\* categorical_columns the call fails with MissingDatasetProperty before the filter
\* or any later stage has run.
C8_AsClaimed ==
    (Composed /\ _check_dataset_properties(lastCall.resolved) # "ok")
    => /\ lastCall.status = "MissingDatasetProperty"
       /\ lastCall.stages = <<>>

\* C9: a call repeated with the same arguments, the updates and the registry
\* unchanged, has the outcome of the call before it: the same '__choice__' domain in
\* the same order, the same default and the same sub-spaces in the same order.
C9_RepeatedCallSameOutcome ==
    lastCall.repeat =>
        /\ lastCall.status = lastCall.prevStatus
        /\ lastCall.cs = lastCall.prevSpace

C9_Witness ==
    /\ lastCall.repeat
    /\ lastCall.status = "ok"
    /\ lastCall.arg.given
    /\ Len(lastCall.cs.children) >= 2
    /\ DOMAIN lastCall.resolved # DOMAIN lastCall.arg.props

\* C10: the cached properties are the initial properties overlaid, in call order,
\* by the arguments of the calls that succeeded; the cached space is the space the
\* latest successful call returned; a failed call changes neither; each call
\* computes with the cached properties overlaid by its own argument.
C10_CacheIsOverlayOfSuccesses ==
    /\ dataset_properties = okProps
    /\ configuration_space = okSpace
    /\ Succeeded => configuration_space = lastCall.cs
    /\ Composed => lastCall.resolved =
                      Overlay(okProps, IF lastCall.arg.given THEN lastCall.arg.props ELSE EmptyProps)

C10_Witness ==
    /\ Composed /\ lastCall.status # "ok"
    /\ configuration_space # NoSpace
    /\ DOMAIN dataset_properties = {"numerical_columns", "categorical_columns"}
    /\ dataset_properties["numerical_columns"] = ListVal(<<>>)
    /\ dataset_properties["categorical_columns"] = ListVal(<<"c2">>)

====
